---- MODULE Spec2Model ----
(***************************************************************************)
(* Antimicrobial / Antifungal Activity Analyzer (src/app.py).              *)
(*                                                                         *)
(* The table (DataModel.df), the delete/undo slot, the PGI computation,    *)
(* the grouped statistics of generate_plot and generate_pgi_plot and what  *)
(* they show to the operator.                                              *)
(*                                                                         *)
(* Numbers.  A Python float is modelled as an exact rational               *)
(* [num, den] in lowest terms with den > 0; np.nan is [num |-> 0,          *)
(* den |-> 0].  A standard deviation is kept as Sqrt(q), i.e. by the       *)
(* rational q it is the non-negative root of.                              *)
(* Indexes.  Row indexes are 0-based as in the source; df is a TLA+        *)
(* sequence, so row i of the table is df[i + 1].                           *)
(***************************************************************************)
EXTENDS Integers, Sequences, FiniteSets, TLC

(***************************************************************************)
(* Bounds of the model.                                                    *)
(***************************************************************************)
\* longest table of a session of the entry and table tabs
MaxRows == 3
\* longest table of a session that loads and imports CSV files
MaxFileRows == 2
\* longest table of a session that exports the PGI table
MaxExportRows == 2
\* longest table of StatRows given to the plots
MaxStatRows == 2
\* largest |mm| value of the one-row tables that exercise compute_pgi_for_row
MaxMm == 15

(***************************************************************************)
(* Floats.                                                                 *)
(***************************************************************************)
Abs(n) == IF n < 0 THEN -n ELSE n

RECURSIVE GCD(_, _)
GCD(a, b) == IF b = 0 THEN a ELSE GCD(b, a % b)

\* np.nan
nan == [num |-> 0, den |-> 0]

\* np.isnan / pd.isna on a float
isnan(x) == x.den = 0

\* the float n / d (d # 0), in lowest terms
Frac(n, d) ==
    LET s == IF d < 0 THEN -1 ELSE 1
        g == GCD(Abs(n), Abs(d))
    IN  [num |-> (s * n) \div g, den |-> (s * d) \div g]

\* float(n) of a whole number
float(n) == [num |-> n, den |-> 1]

\* a - b; nan when either operand is nan
FSub(a, b) ==
    IF isnan(a) \/ isnan(b) THEN nan
    ELSE Frac(a.num * b.den - b.num * a.den, a.den * b.den)

\* a + b
FAdd(a, b) ==
    IF isnan(a) \/ isnan(b) THEN nan
    ELSE Frac(a.num * b.den + b.num * a.den, a.den * b.den)

\* a * b
FMul(a, b) ==
    IF isnan(a) \/ isnan(b) THEN nan
    ELSE Frac(a.num * b.num, a.den * b.den)

\* a / b; numpy gives nan (0/0) or an infinity on a zero divisor, neither of
\* which the guarded call sites reach: modelled as nan
FDiv(a, b) ==
    IF isnan(a) \/ isnan(b) \/ b.num = 0 THEN nan
    ELSE Frac(a.num * b.den, a.den * b.num)

\* a <= b, a < b: False when either operand is nan
FLe(a, b) == ~isnan(a) /\ ~isnan(b) /\ a.num * b.den <= b.num * a.den
FLt(a, b) == ~isnan(a) /\ ~isnan(b) /\ a.num * b.den < b.num * a.den

\* the non-negative square root of q, kept by its radicand
Sqrt(q) == [sq |-> q]

(***************************************************************************)
(* Strings.  Python compares str values lexicographically; the names the   *)
(* model uses are single capital letters, ordered as their code points.    *)
(***************************************************************************)
Names == {"A", "B", "X", "Y"}

ord(s) == CASE s = "A" -> 65 [] s = "B" -> 66 [] s = "X" -> 88 [] s = "Y" -> 89
            [] OTHER -> 0

\* a < b on str
StrLt(a, b) == ord(a) < ord(b)

\* float(s) of an entry string: <<value>>, or <<>> where Python raises
\* ValueError.  The decimal numerals the model types, and one non-number.
NumeralValue == [s \in {"-5", "0", "5", "10", "15"} |->
                    CASE s = "-5" -> -5 [] s = "0" -> 0 [] s = "5" -> 5
                      [] s = "10" -> 10 [] s = "15" -> 15]

ParseFloat(s) ==
    IF s \in DOMAIN NumeralValue THEN <<float(NumeralValue[s])>> ELSE <<>>

(***************************************************************************)
(* DataModel: the table self.df, one record per row, columns DATA_COLUMNS. *)
(***************************************************************************)
DATA_COLUMNS == <<"Isolate", "Fungus", "Measurement_mm",
                  "Concentration_CFU_per_ml", "Control_mm", "ImagePath", "Notes">>

\* the row dict built by DataModel.add / written by DataModel.update
Row(isolate, fungus, mm, conc, control, imgpath, notes) ==
    [Isolate |-> isolate, Fungus |-> fungus, Measurement_mm |-> mm,
     Concentration_CFU_per_ml |-> conc, Control_mm |-> control,
     ImagePath |-> imgpath, Notes |-> notes]

\* DataModel.add: concat with ignore_index, the new row is the last one
add(d, isolate, fungus, mm, conc, control, imgpath, notes) ==
    Append(d, Row(isolate, fungus, mm, conc, control, imgpath, notes))

\* DataModel.update: nothing when index is outside 0..len-1
update(d, index, isolate, fungus, mm, conc, control, imgpath, notes) ==
    IF index < 0 \/ index >= Len(d) THEN d
    ELSE [d EXCEPT ![index + 1] =
              Row(isolate, fungus, mm, conc, control, imgpath, notes)]

\* DataModel.delete: drop(index).reset_index(drop=True)
delete(d, index) ==
    IF index < 0 \/ index >= Len(d) THEN d
    ELSE SubSeq(d, 1, index) \o SubSeq(d, index + 2, Len(d))

Min(a, b) == IF a <= b THEN a ELSE b

\* mutant of undo_insert: the restored row is put after the row now at idx
undo_insert_after(d, idx, row) ==
    LET k == Min(idx + 1, Len(d))
    IN  SubSeq(d, 1, k) \o <<row>> \o SubSeq(d, k + 1, Len(d))

\* undo_delete: concat([df.iloc[:idx], DataFrame([row]), df.iloc[idx:]])
\* followed by reset_index(drop=True)
undo_insert(d, idx, row) ==
    LET k == Min(idx, Len(d))
    IN  SubSeq(d, 1, k) \o <<row>> \o SubSeq(d, k + 1, Len(d))

(***************************************************************************)
(* Row labels.  A DataFrame addresses its rows by the labels of its index; *)
(* df.at, df.loc and df.drop take a label, df.iloc takes a position.  The  *)
(* index of a table is the sequence of its row labels.                     *)
(***************************************************************************)
\* the default index of a frame of n rows: 0, 1, .., n-1.  pd.read_csv gives it
\* to the frame it reads from a file none of whose rows has more fields than
\* the header; only such files are read here.
RangeIndex(n) == [i \in 1..n |-> i - 1]

\* mutant of reset_index: the labels are kept
reset_index_kept(ix) == ix

\* reset_index(drop=True)
reset_index(ix) == RangeIndex(Len(ix))

\* the index of pd.concat([a, b]) and of pd.concat([a, b], ignore_index=True)
concat_index(a, b, ignore_index) ==
    IF ignore_index THEN RangeIndex(Len(a) + Len(b)) ELSE a \o b

\* the index of df.drop(label)
drop(ix, label) == SelectSeq(ix, LAMBDA l : l # label)

\* the index after DataModel.add
add_index(ix) == concat_index(ix, RangeIndex(1), TRUE)

\* the index after DataModel.update: df.at[index, c] = v on a label the index
\* lacks would add a row with that label
update_index(ix, index) ==
    IF index < 0 \/ index >= Len(ix) THEN ix
    ELSE IF \E i \in 1..Len(ix) : ix[i] = index THEN ix
    ELSE Append(ix, index)

\* the index after DataModel.delete
delete_index(ix, index) ==
    IF index < 0 \/ index >= Len(ix) THEN ix
    ELSE reset_index(drop(ix, index))

\* the index after undo_delete: DataFrame([row]) has the index <<0>>
undo_index(ix, idx) ==
    LET k   == Min(idx, Len(ix))
        top == concat_index(SubSeq(ix, 1, k), RangeIndex(1), FALSE)
    IN  reset_index(concat_index(top, SubSeq(ix, k + 1, Len(ix)), FALSE))

(***************************************************************************)
(* Frames.  A DataFrame read from a CSV file is [columns, rows]: the       *)
(* column names in order and one function column -> cell per row.  A cell  *)
(* of a numeric column is a float, or [text |-> s] when the file holds a   *)
(* non-number there; a cell of a text column is a string.                  *)
(***************************************************************************)
Range(seq) == {seq[i] : i \in 1..Len(seq)}

\* the columns back-filled with np.nan; the other columns are back-filled with ""
NUMERIC_COLUMNS == {"Measurement_mm", "Concentration_CFU_per_ml", "Control_mm"}

\* pd.DataFrame(columns=DATA_COLUMNS)
EmptyFrame == [columns |-> DATA_COLUMNS, rows |-> <<>>]

\* for c in DATA_COLUMNS: if c not in df.columns: df[c] = np.nan or ""
\* (a new column is appended after the existing ones)
backfill(fr) ==
    LET missing == SelectSeq(DATA_COLUMNS, LAMBDA c : c \notin Range(fr.columns))
        columns == fr.columns \o missing
    IN  [columns |-> columns,
         rows |-> [i \in 1..Len(fr.rows) |->
                      [c \in Range(columns) |->
                          IF c \in DOMAIN fr.rows[i] THEN fr.rows[i][c]
                          ELSE IF c \in NUMERIC_COLUMNS THEN nan ELSE ""]]]

\* df.reindex(columns=columns): the named columns in the given order, a column
\* the frame lacks filled with NaN
reindex(fr, columns) ==
    [columns |-> columns,
     rows |-> [i \in 1..Len(fr.rows) |->
                  [c \in Range(columns) |->
                      IF c \in DOMAIN fr.rows[i] THEN fr.rows[i][c] ELSE nan]]]

\* mutant of load: the columns are back-filled but not reordered
load_no_reindex(fr) == backfill(fr)

\* DataModel.load on the frame pd.read_csv returned
load(fr) == reindex(backfill(fr), DATA_COLUMNS)

\* pd.concat([a, b], ignore_index=True): the columns of a, then those only b
\* has; a cell of a column its frame lacks is NaN
concat(a, b) ==
    LET columns == a.columns \o SelectSeq(b.columns, LAMBDA c : c \notin Range(a.columns))
        rows    == a.rows \o b.rows
    IN  [columns |-> columns,
         rows |-> [i \in 1..Len(rows) |->
                      [c \in Range(columns) |->
                          IF c \in DOMAIN rows[i] THEN rows[i][c] ELSE nan]]]

\* DataModel.__init__; file is <<>> when measurements.csv does not exist or
\* cannot be read, else <<the frame read>>
DataModel_init(file) == IF file = <<>> THEN EmptyFrame ELSE load(file[1])

\* refresh_table formats the three numeric cells of a row with :.2f and int();
\* that raises on a cell that is not a number
displayable(row) == \A c \in NUMERIC_COLUMNS : "num" \in DOMAIN row[c]

\* refresh_table: the number of rows the tree shows afterwards, i.e. the rows
\* before the first one whose formatting raises
refresh_rows(d) ==
    IF \A i \in 1..Len(d) : displayable(d[i]) THEN Len(d)
    ELSE (CHOOSE i \in 1..Len(d) :
             /\ ~displayable(d[i])
             /\ \A j \in 1..(i - 1) : displayable(d[j])) - 1

\* refresh_table returns without raising
refresh_ok(d) == refresh_rows(d) = Len(d)

\* DataFrame.to_csv: the cell v of column c as written to the file.  NaN is
\* written as the empty field, a number as its numeral, a string as itself
\* (the cells of the text columns are strings in the model).
csv_cell(c, v) ==
    IF c \notin NUMERIC_COLUMNS \cup {"PGI_pct"}
    THEN IF v = "" THEN [empty |-> TRUE] ELSE [text |-> v]
    ELSE IF "text" \in DOMAIN v THEN [text |-> v.text]
    ELSE IF v.den = 0 THEN [empty |-> TRUE]
    ELSE [numeral |-> v]

\* DataFrame.to_csv(path, index=False): the header and one line per row
to_csv(columns, rows) ==
    [header |-> columns,
     lines |-> [i \in 1..Len(rows) |->
                   [c \in Range(columns) |-> csv_cell(c, rows[i][c])]]]

(***************************************************************************)
(* PGI utilities.                                                          *)
(***************************************************************************)
\* mutant of compute_pgi_for_row: the operands of the difference are swapped
compute_pgi_swapped(row) ==
    LET R1 == row.Measurement_mm
        KR == row.Control_mm
    IN  IF isnan(KR) \/ FLe(KR, float(0)) THEN nan
        ELSE FMul(FDiv(FSub(R1, KR), KR), float(100))

\* mutant of compute_pgi_for_row: the result is clamped to [0, 100]
compute_pgi_clamped(row) ==
    LET R1 == row.Measurement_mm
        KR == row.Control_mm
        v  == FMul(FDiv(FSub(KR, R1), KR), float(100))
    IN  IF isnan(KR) \/ FLe(KR, float(0)) THEN nan
        ELSE IF FLt(v, float(0)) THEN float(0)
        ELSE IF FLt(float(100), v) THEN float(100)
        ELSE v

\* mutant of compute_pgi_for_row: a missing or invalid control counts as 0
compute_pgi_zero(row) ==
    LET R1 == row.Measurement_mm
        KR == row.Control_mm
    IN  IF isnan(KR) \/ FLe(KR, float(0)) THEN float(0)
        ELSE FMul(FDiv(FSub(KR, R1), KR), float(100))

\* compute_pgi_for_row: (KR - R1) / KR * 100, nan when Control_mm is nan or <= 0
compute_pgi_for_row(row) ==
    LET R1 == row.Measurement_mm
        KR == row.Control_mm
    IN  IF isnan(KR) \/ FLe(KR, float(0)) THEN nan
        ELSE FMul(FDiv(FSub(KR, R1), KR), float(100))

\* compute_pgi_df: a copy of the table with the column PGI_pct added
compute_pgi_df(d) ==
    [i \in 1..Len(d) |-> [PGI_pct |-> compute_pgi_for_row(d[i])] @@ d[i]]

(***************************************************************************)
(* Series helpers (pandas / numpy).                                        *)
(***************************************************************************)
\* boolean-mask selection d[mask] is SelectSeq: the rows satisfying the mask,
\* in table order

\* d[col] as a sequence of values
Column(d, col) == [i \in 1..Len(d) |-> d[i][col]]

\* Series.dropna() on floats
dropna(vals) == SelectSeq(vals, LAMBDA v : ~isnan(v))

\* Series.unique(): the distinct values in order of first appearance
RECURSIVE unique(_)
unique(seq) ==
    IF seq = <<>> THEN <<>>
    ELSE LET h == Head(seq)
         IN  <<h>> \o unique(SelectSeq(Tail(seq), LAMBDA v : v # h))

\* insertion of a str into an ascending list
RECURSIVE Insert(_, _)
Insert(x, sortedSeq) ==
    IF sortedSeq = <<>> THEN <<x>>
    ELSE IF StrLt(x, Head(sortedSeq)) THEN <<x>> \o sortedSeq
    ELSE <<Head(sortedSeq)>> \o Insert(x, Tail(sortedSeq))

\* mutant of sorted: the list is left in order of first appearance
sorted_not(seq) == seq

\* sorted(): ascending, lexicographic on str
RECURSIVE sorted(_)
sorted(seq) ==
    IF seq = <<>> THEN <<>> ELSE Insert(Head(seq), sorted(Tail(seq)))

RECURSIVE Sum(_)
Sum(vals) == IF vals = <<>> THEN float(0) ELSE FAdd(Head(vals), Sum(Tail(vals)))

\* Series.mean() / np.nanmean on values without nan; nan on an empty list
mean(vals) == FDiv(Sum(vals), float(Len(vals)))

\* the variance with denominator N - ddof
var(vals, ddof) ==
    LET m  == mean(vals)
        sq == [i \in 1..Len(vals) |-> FMul(FSub(vals[i], m), FSub(vals[i], m))]
    IN  FDiv(Sum(sq), float(Len(vals) - ddof))

\* mutant of std0: the sample standard deviation (ddof = 1)
std1(vals) == Sqrt(var(vals, 1))

\* Series.std(ddof=0) / np.nanstd(v, ddof=0): population standard deviation
std0(vals) == Sqrt(var(vals, 0))

\* np.nanargmax(means): 1-based position of the first largest non-nan entry
\* (0 when every entry is nan, where numpy raises)
nanargmax(ms) ==
    LET ok == {i \in 1..Len(ms) : ~isnan(ms[i])}
    IN  IF ok = {} THEN 0
        ELSE CHOOSE i \in ok :
               /\ \A j \in ok : FLe(ms[j], ms[i])
               /\ \A j \in ok : j < i => FLt(ms[j], ms[i])

\* np.nanargmin(means): 1-based position of the first smallest non-nan entry
nanargmin(ms) ==
    LET ok == {i \in 1..Len(ms) : ~isnan(ms[i])}
    IN  IF ok = {} THEN 0
        ELSE CHOOSE i \in ok :
               /\ \A j \in ok : FLe(ms[i], ms[j])
               /\ \A j \in ok : j < i => FLt(ms[i], ms[j])

(***************************************************************************)
(* State of AnalyzerApp.                                                   *)
(*   df                 self.model.df, the table                           *)
(*   selected_index     <<>> (None) or <<idx>>                             *)
(*   _last_deleted      <<>> (None) or <<idx, row>>                        *)
(*   df_columns         self.model.df.columns, the column names in order   *)
(*   df_index           self.model.df.index, the row labels in order       *)
(*   tree_sel           selection of the Data Table tree: <<>> or <<idx>>  *)
(*   tree_rows          number of rows of the Data Table tree, item ids    *)
(*                      0..tree_rows-1 (refresh_table)                     *)
(*   current_image      path chosen by upload_image / edit_selected        *)
(*   txt_details        text of the details box of the plots tab           *)
(*   ax                 what is drawn on the axes of the plots tab         *)
(*   pgi_ax             what is drawn on the axes of the statistics tab    *)
(*   pgi_notes          text of the notes box of the statistics tab        *)
(*   _last_pgi_df       <<>> (None) or <<table with PGI_pct>>; the PGI     *)
(*                      tree of the statistics tab shows the same rows     *)
(*   _last_pgi_fig      <<>> (None) or <<figure kept for the PDF>>         *)
(*   _last_pgi_summary  text kept for the PDF                              *)
(*   written            <<>> or <<the file last written by save_csv or     *)
(*                      export_pgi_csv>>                                   *)
(*   hist               history variable: the last handler that ran, the   *)
(*                      inputs it read, the message it showed and the      *)
(*                      table it started from                              *)
(*   edit_req           history variable: <<>>, or <<idx, row>> when       *)
(*                      edit_selected ran on row idx and no save_entry     *)
(*                      stored a record and no clear_fields ran since      *)
(*   sel_req            history variable: <<>> when selected_index is      *)
(*                      None, else <<idx, row>>: the row that was at       *)
(*                      selected_index when the operator selected it       *)
(***************************************************************************)
VARIABLES df, df_columns, df_index, selected_index, _last_deleted, tree_sel, tree_rows,
          current_image, txt_details, ax, pgi_ax, pgi_notes,
          _last_pgi_df, _last_pgi_fig, _last_pgi_summary, written, hist, edit_req,
          sel_req

vars == <<df, df_columns, df_index, selected_index, _last_deleted, tree_sel, tree_rows,
          current_image, txt_details, ax, pgi_ax, pgi_notes,
          _last_pgi_df, _last_pgi_fig, _last_pgi_summary, written, hist, edit_req,
          sel_req>>

tablevars == <<df, df_columns, df_index, selected_index, _last_deleted, tree_sel, tree_rows,
               current_image, edit_req, sel_req>>
plotvars  == <<ax, pgi_ax, pgi_notes, _last_pgi_df, _last_pgi_fig, _last_pgi_summary>>

\* an empty text widget / the empty string
NoText == [head |-> ""]

\* freshly created or cleared axes
BlankAxes == [kind |-> ""]

\* AnalyzerApp.__init__ when DataModel.__init__ gives the frame fr
InitFrame(fr) ==
    /\ df = fr.rows
    /\ df_columns = fr.columns
    /\ df_index = RangeIndex(Len(fr.rows))
    /\ selected_index = <<>>
    /\ _last_deleted = <<>>
    /\ tree_sel = <<>>
    /\ tree_rows = refresh_rows(fr.rows)
    /\ current_image = ""
    /\ txt_details = NoText
    /\ ax = BlankAxes
    /\ pgi_ax = BlankAxes
    /\ pgi_notes = NoText
    /\ _last_pgi_df = <<>>
    /\ _last_pgi_fig = <<>>
    /\ _last_pgi_summary = NoText
    /\ written = <<>>
    /\ hist = [op |-> "init"]
    /\ edit_req = <<>>
    /\ sel_req = <<>>

\* AnalyzerApp.__init__ on a table d (DataModel.__init__ reads measurements.csv
\* when it exists, so the session may start from any saved table)
InitApp(d) == InitFrame([columns |-> DATA_COLUMNS, rows |-> d])

(***************************************************************************)
(* Data Table tab and Data Entry tab.                                      *)
(* The contents of the entry widgets and of the dialogs' answers are the   *)
(* operator's input, read when the handler runs.                           *)
(***************************************************************************)
\* the operator selects row idx of the tree; <<TreeviewSelect>> runs on_tree_select
on_tree_select(idx) ==
    /\ idx \in 0..(tree_rows - 1)
    /\ tree_sel' = <<idx>>
    /\ selected_index' = <<idx>>
    /\ txt_details' = [head |-> "record", index |-> idx, row |-> df[idx + 1]]
    /\ hist' = [op |-> "on_tree_select"]
    /\ sel_req' = <<idx, df[idx + 1]>>
    /\ UNCHANGED <<df, df_columns, df_index, _last_deleted, tree_rows, current_image, edit_req>>
    /\ UNCHANGED <<plotvars, written>>

\* edit_selected: the selected row is copied to the entry widgets
edit_selected ==
    /\ IF tree_sel = <<>>
       THEN UNCHANGED <<selected_index, current_image, hist, edit_req, sel_req>>
       ELSE LET idx == tree_sel[1]
                row == df[idx + 1]
            IN  /\ selected_index' = <<idx>>
                /\ current_image' = row.ImagePath
                /\ hist' = [op |-> "edit_selected"]
                /\ edit_req' = <<idx, row>>
                /\ sel_req' = <<idx, row>>
    /\ UNCHANGED <<df, df_columns, df_index, _last_deleted, tree_sel, tree_rows, txt_details>>
    /\ UNCHANGED <<plotvars, written>>

\* delete_selected; yes is the answer to the Confirm dialog
\* (when refresh_table raises, the handler ends there and the details box is
\* not cleared)
delete_selected(yes) ==
    /\ IF tree_sel = <<>> \/ ~yes
       THEN UNCHANGED <<df, df_index, _last_deleted, tree_sel, tree_rows, txt_details,
                        hist>>
       ELSE LET idx == tree_sel[1]
                row == df[idx + 1]
                new == delete(df, idx)
            IN  /\ _last_deleted' = <<idx, row>>
                /\ df' = new
                /\ df_index' = delete_index(df_index, idx)
                /\ tree_sel' = <<>>
                /\ tree_rows' = refresh_rows(new)
                /\ txt_details' = IF refresh_ok(new) THEN NoText ELSE txt_details
                /\ hist' = [op |-> "delete_selected", idx |-> idx, before |-> df]
    /\ UNCHANGED <<df_columns, selected_index, current_image, edit_req, sel_req>>
    /\ UNCHANGED <<plotvars, written>>

\* mutant of undo_delete: the undo slot is not emptied
undo_delete_keep ==
    /\ IF _last_deleted = <<>>
       THEN /\ hist' = [op |-> "undo_delete", msg |-> "No deletion to undo",
                            after |-> hist.op]
            /\ UNCHANGED <<df, df_index, _last_deleted, tree_sel, tree_rows>>
       ELSE LET idx == _last_deleted[1]
                row == _last_deleted[2]
                new == undo_insert(df, idx, row)
            IN  /\ df' = new
                /\ df_index' = undo_index(df_index, idx)
                /\ UNCHANGED _last_deleted
                /\ tree_sel' = <<>>
                /\ tree_rows' = refresh_rows(new)
                /\ hist' = [op |-> "undo_delete", msg |-> "Last deletion undone",
                            idx |-> idx, row |-> row, after |-> hist.op,
                            before |-> IF hist.op = "delete_selected"
                                       THEN hist.before ELSE <<>>]
    /\ UNCHANGED <<df_columns, selected_index, current_image, txt_details, edit_req,
                   sel_req>>
    /\ UNCHANGED <<plotvars, written>>

\* undo_delete
undo_delete ==
    /\ IF _last_deleted = <<>>
       THEN /\ hist' = [op |-> "undo_delete", msg |-> "No deletion to undo",
                            after |-> hist.op]
            /\ UNCHANGED <<df, df_index, _last_deleted, tree_sel, tree_rows>>
       ELSE LET idx == _last_deleted[1]
                row == _last_deleted[2]
                new == undo_insert(df, idx, row)
            IN  /\ df' = new
                /\ df_index' = undo_index(df_index, idx)
                /\ _last_deleted' = <<>>
                /\ tree_sel' = <<>>
                /\ tree_rows' = refresh_rows(new)
                /\ hist' = [op |-> "undo_delete", msg |-> "Last deletion undone",
                            idx |-> idx, row |-> row, after |-> hist.op,
                            before |-> IF hist.op = "delete_selected"
                                       THEN hist.before ELSE <<>>]
    /\ UNCHANGED <<df_columns, selected_index, current_image, txt_details, edit_req,
                   sel_req>>
    /\ UNCHANGED <<plotvars, written>>

\* DataModel.update called with any index, outside the handlers
DataModel_update(index, isolate, fungus, mm, conc, control, imgpath, notes) ==
    /\ df' = update(df, index, isolate, fungus, mm, conc, control, imgpath, notes)
    /\ df_index' = update_index(df_index, index)
    /\ hist' = [op |-> "DataModel.update", index |-> index]
    /\ UNCHANGED <<df_columns, selected_index, _last_deleted, tree_sel, tree_rows,
                   current_image, txt_details, edit_req, sel_req>>
    /\ UNCHANGED <<plotvars, written>>

\* DataModel.delete called with any index, outside the handlers
DataModel_delete(index) ==
    /\ df' = delete(df, index)
    /\ df_index' = delete_index(df_index, index)
    /\ hist' = [op |-> "DataModel.delete", index |-> index]
    /\ UNCHANGED <<df_columns, selected_index, _last_deleted, tree_sel, tree_rows,
                   current_image, txt_details, edit_req, sel_req>>
    /\ UNCHANGED <<plotvars, written>>

\* clear_fields
clear_fields ==
    /\ current_image' = ""
    /\ selected_index' = <<>>
    /\ txt_details' = NoText
    /\ hist' = [op |-> "clear_fields"]
    /\ edit_req' = <<>>
    /\ sel_req' = <<>>
    /\ UNCHANGED <<df, df_columns, df_index, _last_deleted, tree_sel, tree_rows>>
    /\ UNCHANGED <<plotvars, written>>

\* upload_image; path is the first file chosen ("" when the dialog is cancelled)
upload_image(path) ==
    /\ IF path = "" THEN UNCHANGED <<current_image, hist>>
       ELSE /\ current_image' = path
            /\ hist' = [op |-> "upload_image"]
    /\ UNCHANGED <<df, df_columns, df_index, selected_index, _last_deleted, tree_sel, tree_rows,
                   txt_details, edit_req, sel_req>>
    /\ UNCHANGED <<plotvars, written>>

\* mutant of save_entry: the concentration is validated after the record has
\* been stored
save_entry_late_check(iso, fungus, zone, control, conc) ==
    LET mm       == ParseFloat(zone)
        ctrl_val == IF control # "" THEN ParseFloat(control) ELSE <<nan>>
        conc_val == IF conc # "" THEN ParseFloat(conc) ELSE <<nan>>
        conc_num == IF conc_val = <<>> THEN nan ELSE conc_val[1]
        why      == IF iso = "" \/ fungus = "" \/ zone = "" THEN "Missing"
                    ELSE IF mm = <<>> THEN "Measurement must be numeric"
                    ELSE IF ctrl_val = <<>> THEN "Control must be numeric"
                    ELSE IF conc_val = <<>> THEN "Concentration must be numeric"
                    ELSE ""
        new      == IF selected_index = <<>>
                    THEN add(df, iso, fungus, mm[1], conc_num, ctrl_val[1],
                             current_image, "")
                    ELSE update(df, selected_index[1], iso, fungus, mm[1],
                                conc_num, ctrl_val[1], current_image, "")
        new_index == IF selected_index = <<>> THEN add_index(df_index)
                     ELSE update_index(df_index, selected_index[1])
    IN  /\ IF why \notin {"", "Concentration must be numeric"}
           THEN /\ hist' = [op |-> "save_entry", ok |-> FALSE, msg |-> why]
                /\ UNCHANGED <<df, df_index, selected_index, tree_sel, tree_rows,
                               current_image, txt_details, edit_req, sel_req>>
           ELSE IF why # ""
           THEN /\ df' = new
                /\ df_index' = new_index
                /\ hist' = [op |-> "save_entry", ok |-> FALSE, msg |-> why]
                /\ UNCHANGED <<selected_index, tree_sel, tree_rows, current_image,
                               txt_details, edit_req, sel_req>>
           ELSE /\ df' = new
                /\ df_index' = new_index
                /\ current_image' = ""
                /\ tree_sel' = <<>>
                /\ tree_rows' = refresh_rows(new)
                /\ IF refresh_ok(new)
                   THEN selected_index' = <<>> /\ txt_details' = NoText /\ sel_req' = <<>>
                   ELSE UNCHANGED <<selected_index, txt_details, sel_req>>
                /\ edit_req' = <<>>
                /\ hist' = [op |-> "save_entry", ok |-> TRUE, msg |-> "",
                            row |-> Row(iso, fungus, mm[1], conc_num, ctrl_val[1],
                                        current_image, "")]
        /\ UNCHANGED <<df_columns, _last_deleted>>
        /\ UNCHANGED <<plotvars, written>>

\* save_entry on the stripped contents of the entry widgets.  When
\* refresh_table raises, the handler ends there: the record is stored but
\* clear_fields is not reached.
save_entry(iso, fungus, zone, control, conc) ==
    LET mm       == ParseFloat(zone)
        ctrl_val == IF control # "" THEN ParseFloat(control) ELSE <<nan>>
        conc_val == IF conc # "" THEN ParseFloat(conc) ELSE <<nan>>
        why      == IF iso = "" \/ fungus = "" \/ zone = "" THEN "Missing"
                    ELSE IF mm = <<>> THEN "Measurement must be numeric"
                    ELSE IF ctrl_val = <<>> THEN "Control must be numeric"
                    ELSE IF conc_val = <<>> THEN "Concentration must be numeric"
                    ELSE ""
        new      == IF selected_index = <<>>
                    THEN add(df, iso, fungus, mm[1], conc_val[1], ctrl_val[1],
                             current_image, "")
                    ELSE update(df, selected_index[1], iso, fungus, mm[1],
                                conc_val[1], ctrl_val[1], current_image, "")
        new_index == IF selected_index = <<>> THEN add_index(df_index)
                     ELSE update_index(df_index, selected_index[1])
    IN  /\ IF why # ""
           THEN /\ hist' = [op |-> "save_entry", ok |-> FALSE, msg |-> why]
                /\ UNCHANGED <<df, df_index, selected_index, tree_sel, tree_rows,
                               current_image, txt_details, edit_req, sel_req>>
           ELSE /\ df' = new
                /\ df_index' = new_index
                /\ current_image' = ""
                /\ tree_sel' = <<>>
                /\ tree_rows' = refresh_rows(new)
                /\ IF refresh_ok(new)
                   THEN selected_index' = <<>> /\ txt_details' = NoText /\ sel_req' = <<>>
                   ELSE UNCHANGED <<selected_index, txt_details, sel_req>>
                /\ edit_req' = <<>>
                /\ hist' = [op |-> "save_entry", ok |-> TRUE, msg |-> "",
                            row |-> Row(iso, fungus, mm[1], conc_val[1], ctrl_val[1],
                                        current_image, "")]
        /\ UNCHANGED <<df_columns, _last_deleted>>
        /\ UNCHANGED <<plotvars, written>>

(***************************************************************************)
(* CSV files.  path is the name chosen in the file dialog ("" when the     *)
(* dialog is cancelled); file is what pd.read_csv makes of the file: <<>>  *)
(* when it raises, else <<the frame read>>; writable tells whether to_csv  *)
(* can write the chosen path.                                              *)
(***************************************************************************)
\* load_csv: DataModel.load replaces the table, then the tree is refreshed;
\* an exception of either is reported as "Error"
load_csv(path, file) ==
    IF path = "" THEN UNCHANGED vars
    ELSE IF file = <<>>
    THEN /\ hist' = [op |-> "load_csv", msg |-> "Error", file |-> file]
         /\ UNCHANGED <<tablevars, txt_details, plotvars, written>>
    ELSE LET fr == load(file[1])
         IN  /\ df' = fr.rows
             /\ df_columns' = fr.columns
             /\ df_index' = RangeIndex(Len(fr.rows))
             /\ tree_sel' = <<>>
             /\ tree_rows' = refresh_rows(fr.rows)
             /\ hist' = [op |-> "load_csv", file |-> file,
                         msg |-> IF refresh_ok(fr.rows) THEN "Loaded" ELSE "Error"]
             /\ UNCHANGED <<selected_index, _last_deleted, current_image, txt_details,
                            edit_req, sel_req>>
             /\ UNCHANGED <<plotvars, written>>

\* import_csv_append: the frame read is normalised as DataModel.load does and
\* appended to the table, then the tree is refreshed; an exception of any of
\* these is reported as "Import error"
import_csv_append(path, file) ==
    IF path = "" THEN UNCHANGED vars
    ELSE IF file = <<>>
    THEN /\ hist' = [op |-> "import_csv_append", msg |-> "Import error", file |-> file]
         /\ UNCHANGED <<tablevars, txt_details, plotvars, written>>
    ELSE LET fr  == load(file[1])
             all == concat([columns |-> df_columns, rows |-> df], fr)
         IN  /\ df' = all.rows
             /\ df_columns' = all.columns
             /\ df_index' = concat_index(df_index, RangeIndex(Len(fr.rows)), TRUE)
             /\ tree_sel' = <<>>
             /\ tree_rows' = refresh_rows(all.rows)
             /\ hist' = [op |-> "import_csv_append", file |-> file,
                         msg |-> IF refresh_ok(all.rows) THEN "Imported"
                                 ELSE "Import error"]
             /\ UNCHANGED <<selected_index, _last_deleted, current_image, txt_details,
                            edit_req, sel_req>>
             /\ UNCHANGED <<plotvars, written>>

\* save_csv: DataModel.save writes the table to the chosen path
save_csv(path, writable) ==
    IF path = "" THEN UNCHANGED vars
    ELSE /\ IF writable
            THEN /\ written' = <<[path |-> path] @@ to_csv(df_columns, df)>>
                 /\ hist' = [op |-> "save_csv", msg |-> "Saved"]
            ELSE /\ hist' = [op |-> "save_csv", msg |-> "Error"]
                 /\ UNCHANGED written
         /\ UNCHANGED <<tablevars, txt_details, plotvars>>

(***************************************************************************)
(* Plots & Analysis tab: generate_plot.                                    *)
(***************************************************************************)
PlotTypes == {"bar", "box", "scatter_annot", "hist"}

\* labels = sorted(sub[group_col].unique())
group_labels(sub, group_col) == sorted(unique(Column(sub, group_col)))

\* sub[sub[group_col] == lab][metric].dropna().astype(float)
group_vals(sub, group_col, metric, lab) ==
    dropna(Column(SelectSeq(sub, LAMBDA r : r[group_col] = lab), metric))

\* the lists means and stds, one entry per label
group_means(sub, group_col, metric, labels) ==
    [i \in 1..Len(labels) |->
        LET vals == group_vals(sub, group_col, metric, labels[i])
        IN  IF vals # <<>> THEN mean(vals) ELSE nan]

group_stds(sub, group_col, metric, labels) ==
    [i \in 1..Len(labels) |->
        LET vals == group_vals(sub, group_col, metric, labels[i])
        IN  IF vals # <<>> THEN std0(vals) ELSE Sqrt(nan)]

\* mutant of best_index: the largest mean is taken whatever the metric
best_index_max(metric, means) == nanargmax(means)

\* position of the best performer: np.nanargmax for PGI_pct, np.nanargmin for
\* the raw measurement
best_index(metric, means) ==
    IF metric = "PGI_pct" THEN nanargmax(means) ELSE nanargmin(means)

\* the details text
plot_details(metric, target, labels, means, stds) ==
    IF \A i \in 1..Len(means) : isnan(means[i])
    THEN [head |-> IF metric = "PGI_pct" THEN "No valid PGI values"
                   ELSE "No valid measurement values"]
    ELSE LET best_idx == best_index(metric, means)
         IN  [head |-> IF metric = "PGI_pct" THEN "best performer"
                       ELSE "most effective",
              target |-> target,
              best_label |-> labels[best_idx],
              best_val |-> means[best_idx],
              lines |-> [i \in 1..Len(labels) |->
                            [lab |-> labels[i], m |-> means[i], s |-> stds[i]]]]

\* what the chosen plot type draws (the same data on self.ax and on the figure
\* kept for the PDF)
plot_figure(plot_type, sub, group_col, metric, labels, means, stds) ==
    CASE plot_type = "bar" ->
           [kind |-> "bar", labels |-> labels, heights |-> means, errs |-> stds]
      [] plot_type = "box" ->
           [kind |-> "box", labels |-> labels,
            data |-> [i \in 1..Len(labels) |->
                         group_vals(sub, group_col, metric, labels[i])]]
      [] plot_type = "scatter_annot" ->
           [kind |-> "scatter_annot", labels |-> labels, heights |-> means]
      [] plot_type = "hist" ->
           [kind |-> "hist", data |-> <<dropna(Column(sub, metric))>>]

\* generate_plot; metric_in, plot_type, mode and target are the settings of the
\* tab, yes the answer to the "No PGI data" dialog
generate_plot_refuse_late(metric_in, plot_type, mode, target, yes) ==
    LET d         == IF metric_in = "PGI_pct" THEN compute_pgi_df(df) ELSE df
        key       == IF mode = "ByFungus" THEN "Fungus" ELSE "Isolate"
        group_col == IF mode = "ByFungus" THEN "Isolate" ELSE "Fungus"
        sub       == SelectSeq(d, LAMBDA r : r[key] = target)
        no_pgi    == /\ metric_in = "PGI_pct"
                     /\ dropna(Column(sub, "PGI_pct")) = <<>>
        metric    == IF no_pgi /\ yes THEN "Measurement_mm" ELSE metric_in
        labels    == group_labels(sub, group_col)
        means     == group_means(sub, group_col, metric, labels)
        stds      == group_stds(sub, group_col, metric, labels)
        details   == plot_details(metric, target, labels, means, stds)
        fig       == plot_figure(plot_type, sub, group_col, metric, labels, means, stds)
        call      == [op |-> "generate_plot", metric |-> metric_in, mode |-> mode,
                      target |-> target, used |-> metric, before |-> df,
                      asked |-> no_pgi,
                      shown |-> <<txt_details, _last_pgi_fig, _last_pgi_summary>>]
    IN  /\ IF df = <<>> \/ target = "" \/ sub = <<>>
           THEN UNCHANGED <<txt_details, ax, _last_pgi_fig, _last_pgi_summary, hist>>
           ELSE IF plot_type \notin PlotTypes
           THEN /\ ax' = BlankAxes
                /\ hist' = [drawn |-> FALSE, refused |-> no_pgi /\ ~yes] @@ call
                /\ UNCHANGED <<txt_details, _last_pgi_fig, _last_pgi_summary>>
           ELSE /\ ax' = fig
                /\ _last_pgi_fig' = <<fig>>
                /\ txt_details' = details
                /\ _last_pgi_summary' = details
                /\ hist' = [drawn |-> ~(no_pgi /\ ~yes), refused |-> no_pgi /\ ~yes] @@ call
        /\ UNCHANGED <<pgi_ax, pgi_notes, _last_pgi_df, written>>
        /\ UNCHANGED tablevars

generate_plot(metric_in, plot_type, mode, target, yes) ==
    LET d         == IF metric_in = "PGI_pct" THEN compute_pgi_df(df) ELSE df
        key       == IF mode = "ByFungus" THEN "Fungus" ELSE "Isolate"
        group_col == IF mode = "ByFungus" THEN "Isolate" ELSE "Fungus"
        sub       == SelectSeq(d, LAMBDA r : r[key] = target)
        no_pgi    == /\ metric_in = "PGI_pct"
                     /\ dropna(Column(sub, "PGI_pct")) = <<>>
        metric    == IF no_pgi THEN "Measurement_mm" ELSE metric_in
        labels    == group_labels(sub, group_col)
        means     == group_means(sub, group_col, metric, labels)
        stds      == group_stds(sub, group_col, metric, labels)
        details   == plot_details(metric, target, labels, means, stds)
        fig       == plot_figure(plot_type, sub, group_col, metric, labels, means, stds)
        call      == [op |-> "generate_plot", metric |-> metric_in, mode |-> mode,
                      target |-> target, used |-> metric, before |-> df,
                      asked |-> no_pgi,
                      shown |-> <<txt_details, _last_pgi_fig, _last_pgi_summary>>]
    IN  /\ IF df = <<>> \/ target = "" \/ sub = <<>>
           THEN UNCHANGED <<txt_details, ax, _last_pgi_fig, _last_pgi_summary, hist>>
           ELSE IF no_pgi /\ ~yes
           THEN /\ hist' = [drawn |-> FALSE, refused |-> TRUE] @@ call
                /\ UNCHANGED <<txt_details, ax, _last_pgi_fig, _last_pgi_summary>>
           ELSE IF plot_type \notin PlotTypes
           THEN /\ ax' = BlankAxes
                /\ hist' = [drawn |-> FALSE, refused |-> FALSE] @@ call
                /\ UNCHANGED <<txt_details, _last_pgi_fig, _last_pgi_summary>>
           ELSE /\ ax' = fig
                /\ _last_pgi_fig' = <<fig>>
                /\ txt_details' = details
                /\ _last_pgi_summary' = details
                /\ hist' = [drawn |-> TRUE, refused |-> FALSE] @@ call
        /\ UNCHANGED <<pgi_ax, pgi_notes, _last_pgi_df, written>>
        /\ UNCHANGED tablevars

(***************************************************************************)
(* Statistics (PGI) tab: generate_pgi_plot.                                *)
(***************************************************************************)
PgiPlotTypes == {"grouped_bar", "boxplot", "scatter_annot"}

\* mutant of valid_rows: the values outside [0, 100] are dropped as well
valid_rows_in_range(pgi_df) ==
    SelectSeq(pgi_df, LAMBDA r : /\ ~isnan(r.PGI_pct)
                              /\ FLe(float(0), r.PGI_pct)
                              /\ FLe(r.PGI_pct, float(100)))

\* valid = pgi_df.dropna(subset=["PGI_pct"])
valid_rows(pgi_df) == SelectSeq(pgi_df, LAMBDA r : ~isnan(r.PGI_pct))

\* raw_vals[(ser, xg)]: the PGI values of the valid rows of that pair
raw_vals(valid, series_key, outer_key, ser, xg) ==
    Column(SelectSeq(valid, LAMBDA r : r[series_key] = ser /\ r[outer_key] = xg),
           "PGI_pct")

\* mutant of cell_mean: a pair without values gets 0
cell_mean_zero(v) == IF v # <<>> THEN mean(dropna(v)) ELSE float(0)

\* one cell of mean_mat: np.nanmean(v), nan for a pair without values
cell_mean(v) == IF v # <<>> THEN mean(dropna(v)) ELSE nan

\* one cell of std_mat: np.nanstd(v, ddof=0)
cell_std(v) == IF v # <<>> THEN std0(dropna(v)) ELSE Sqrt(nan)

\* mean_mat and std_mat as rows (series_labels) of columns (x_groups)
mean_matrix(valid, series_key, outer_key, series_labels, x_groups) ==
    [i \in 1..Len(series_labels) |-> [j \in 1..Len(x_groups) |->
        cell_mean(raw_vals(valid, series_key, outer_key, series_labels[i], x_groups[j]))]]

std_matrix(valid, series_key, outer_key, series_labels, x_groups) ==
    [i \in 1..Len(series_labels) |-> [j \in 1..Len(x_groups) |->
        cell_std(raw_vals(valid, series_key, outer_key, series_labels[i], x_groups[j]))]]

\* the summary line of x_groups[j]: col = mean_mat[xg].dropna(); "no PGI data"
\* (best = "") when col is empty, else col.idxmax() and col.max()
summary_best(mean_mat, series_labels, x_groups, j) ==
    LET col == [i \in 1..Len(series_labels) |-> mean_mat[i][j]]
        b   == nanargmax(col)
    IN  IF b = 0 THEN [group |-> x_groups[j], best |-> "", best_val |-> nan]
        ELSE [group |-> x_groups[j], best |-> series_labels[b], best_val |-> col[b]]

\* PGI_pct.notna() & ((PGI_pct < 0) | (PGI_pct > 100))
is_suspicious(r) ==
    /\ ~isnan(r.PGI_pct)
    /\ (FLt(r.PGI_pct, float(0)) \/ FLt(float(100), r.PGI_pct))

\* nan_rows.index: 0-based indexes of the rows without a PGI, ascending
excluded_index(pgi_df) ==
    SelectSeq([i \in 1..Len(pgi_df) |-> i - 1],
              LAMBDA k : isnan(pgi_df[k + 1].PGI_pct))

\* bad.index: 0-based indexes of the suspicious rows, ascending
suspicious_index(pgi_df) ==
    SelectSeq([i \in 1..Len(pgi_df) |-> i - 1],
              LAMBDA k : is_suspicious(pgi_df[k + 1]))

\* the summary text: one "best" line per outer group, the indexes of the
\* excluded rows (<<>> when the line is absent) and the suspicious rows
pgi_summary(pgi_df, mean_mat, series_labels, x_groups) ==
    LET bad == suspicious_index(pgi_df)
    IN  [head |-> "PGI summary",
         best |-> [j \in 1..Len(x_groups) |->
                      summary_best(mean_mat, series_labels, x_groups, j)],
         excluded |-> excluded_index(pgi_df),
         suspicious |-> [k \in 1..Len(bad) |->
                            [index |-> bad[k],
                             PGI |-> pgi_df[bad[k] + 1].PGI_pct,
                             Isolate |-> pgi_df[bad[k] + 1].Isolate,
                             Fungus |-> pgi_df[bad[k] + 1].Fungus]]]

\* series_mean = mean_mat.mean(axis=1, skipna=True)
series_mean(mean_mat) ==
    [i \in 1..Len(mean_mat) |-> mean(dropna(mean_mat[i]))]

\* the boxplot's data: for xg in x_groups, for ser in series_labels, the raw
\* values of the pair, [nan] when it has none
box_data(valid, series_key, outer_key, series_labels, x_groups) ==
    [k \in 1..(Len(x_groups) * Len(series_labels)) |->
        LET j == ((k - 1) \div Len(series_labels)) + 1
            i == ((k - 1) % Len(series_labels)) + 1
            v == raw_vals(valid, series_key, outer_key, series_labels[i], x_groups[j])
        IN  IF v # <<>> THEN v ELSE <<nan>>]

\* generate_pgi_plot; group_mode and plot_type are the settings of the tab
generate_pgi_plot_run(group_mode, plot_type) ==
    LET pgi_df        == compute_pgi_df(df)
        outer_key     == IF group_mode = "ByFungus" THEN "Fungus" ELSE "Isolate"
        series_key    == IF group_mode = "ByFungus" THEN "Isolate" ELSE "Fungus"
        x_groups      == sorted(unique(Column(df, outer_key)))
        valid         == valid_rows(pgi_df)
        series_labels == sorted(unique(Column(valid, series_key)))
        mean_mat      == mean_matrix(valid, series_key, outer_key, series_labels, x_groups)
        std_mat       == std_matrix(valid, series_key, outer_key, series_labels, x_groups)
        data          == box_data(valid, series_key, outer_key, series_labels, x_groups)
        nothing       ==
            CASE plot_type = "grouped_bar" -> series_labels = <<>> \/ x_groups = <<>>
              [] plot_type = "boxplot" ->
                   \A k \in 1..Len(data) : isnan(mean(dropna(data[k])))
              [] plot_type = "scatter_annot" -> series_labels = <<>>
              [] OTHER -> TRUE
        fig           ==
            CASE plot_type = "grouped_bar" ->
                   [kind |-> "grouped_bar", labels |-> x_groups, series |-> series_labels,
                    bars |-> mean_mat, yerr |-> std_mat]
              [] plot_type = "boxplot" ->
                   [kind |-> "boxplot", labels |-> x_groups, series |-> series_labels,
                    data |-> data]
              [] plot_type = "scatter_annot" ->
                   [kind |-> "scatter_annot", labels |-> series_labels,
                    heights |-> series_mean(mean_mat)]
        summary       == pgi_summary(pgi_df, mean_mat, series_labels, x_groups)
        call          == [op |-> "generate_pgi_plot", group_mode |-> group_mode,
                          plot_type |-> plot_type, before |-> df]
    IN  /\ _last_pgi_df' = <<pgi_df>>
        /\ IF nothing
           THEN /\ pgi_ax' = BlankAxes
                /\ hist' = [drawn |-> FALSE] @@ call
                /\ UNCHANGED <<pgi_notes, _last_pgi_fig, _last_pgi_summary>>
           ELSE /\ pgi_ax' = fig
                /\ _last_pgi_fig' = <<fig>>
                /\ pgi_notes' = summary
                /\ _last_pgi_summary' = summary
                /\ hist' = [drawn |-> TRUE] @@ call
        /\ UNCHANGED <<txt_details, ax, written>>
        /\ UNCHANGED tablevars

\* generate_pgi_plot.  On an empty table DataFrame.apply returns an empty
\* frame and, depending on the pandas version, assigning it to the column
\* PGI_pct raises (the handler ends there) or adds an empty column.
generate_pgi_plot(group_mode, plot_type) ==
    \/ /\ df = <<>>
       /\ UNCHANGED vars
    \/ generate_pgi_plot_run(group_mode, plot_type)

\* the columns of the table compute_pgi_df returns: those of the table, then
\* PGI_pct
PGI_COLUMNS == DATA_COLUMNS \o <<"PGI_pct">>

\* mutant of export_pgi_csv: NaN is written as 0
export_pgi_csv_zero(path, writable) ==
    IF _last_pgi_df = <<>>
    THEN /\ hist' = [op |-> "export_pgi_csv", msg |-> "Generate PGI first"]
         /\ UNCHANGED <<tablevars, txt_details, plotvars, written>>
    ELSE IF path = "" THEN UNCHANGED vars
    ELSE /\ IF writable
            THEN /\ written' =
                      <<[path |-> path, header |-> PGI_COLUMNS,
                         lines |-> [i \in 1..Len(_last_pgi_df[1]) |->
                            [c \in Range(PGI_COLUMNS) |->
                               LET cell == csv_cell(c, _last_pgi_df[1][i][c])
                               IN  IF "empty" \in DOMAIN cell /\ c = "PGI_pct"
                                   THEN [numeral |-> float(0)] ELSE cell]]]>>
                 /\ hist' = [op |-> "export_pgi_csv", msg |-> "PGI CSV saved"]
            ELSE /\ hist' = [op |-> "export_pgi_csv", msg |-> "Error"]
                 /\ UNCHANGED written
         /\ UNCHANGED <<tablevars, txt_details, plotvars>>

\* export_pgi_csv: the table kept by the last generate_pgi_plot is written to
\* the chosen path
export_pgi_csv(path, writable) ==
    IF _last_pgi_df = <<>>
    THEN /\ hist' = [op |-> "export_pgi_csv", msg |-> "Generate PGI first"]
         /\ UNCHANGED <<tablevars, txt_details, plotvars, written>>
    ELSE IF path = "" THEN UNCHANGED vars
    ELSE /\ IF writable
            THEN /\ written' = <<[path |-> path] @@ to_csv(PGI_COLUMNS, _last_pgi_df[1])>>
                 /\ hist' = [op |-> "export_pgi_csv", msg |-> "PGI CSV saved"]
            ELSE /\ hist' = [op |-> "export_pgi_csv", msg |-> "Error"]
                 /\ UNCHANGED written
         /\ UNCHANGED <<tablevars, txt_details, plotvars>>

(***************************************************************************)
(* Specifications.                                                         *)
(***************************************************************************)
\* all tables of at most n rows over the rows of S
Tables(S, n) == UNION {[1..k -> S] : k \in 0..n}

\* Spec: a session of the Data Entry and Data Table tabs, from an empty table.
EntryIsolates == {"", "A", "B"}
EntryFungi    == {"X"}
EntryZones    == {"5", "abc"}
EntryControls == {"", "abc"}
EntryConcs    == {"", "abc"}
ImagePaths    == {"", "plate.png"}

Init == InitApp(<<>>)

Next ==
    \/ \E idx \in 0..(MaxRows - 1) : on_tree_select(idx)
    \/ edit_selected
    \/ \E yes \in BOOLEAN : delete_selected(yes)
    \/ Len(df) < MaxRows /\ undo_delete
    \/ clear_fields
    \/ \E path \in ImagePaths : upload_image(path)
    \/ \E iso \in EntryIsolates, fungus \in EntryFungi, zone \in EntryZones,
          control \in EntryControls, conc \in EntryConcs :
         /\ selected_index = <<>> => Len(df) < MaxRows
         /\ save_entry(iso, fungus, zone, control, conc)

Spec == Init /\ [][Next]_vars

\* SpecFiles: a session that loads and imports CSV files and adds, selects,
\* overwrites, deletes and restores records.
\* a file row with every column
FileRow(isolate, mm) ==
    Row(isolate, "X", mm, float(1000), float(10), "plate.png", "note")

\* the frames pd.read_csv returns for the files of the session: a header
\* only; one record; a file without the columns Concentration_CFU_per_ml,
\* ImagePath and Notes, its columns in another order and with the extra
\* column Comment; a file whose Measurement_mm is not a number
CsvFrames ==
    {[columns |-> DATA_COLUMNS, rows |-> <<>>],
     [columns |-> DATA_COLUMNS, rows |-> <<FileRow("A", float(5))>>],
     [columns |-> <<"Fungus", "Comment", "Control_mm", "Isolate", "Measurement_mm">>,
      rows |-> <<[Fungus |-> "X", Comment |-> "ok", Control_mm |-> float(10),
                  Isolate |-> "B", Measurement_mm |-> float(5)]>>],
     [columns |-> DATA_COLUMNS, rows |-> <<FileRow("C", [text |-> "abc"])>>]}

\* <<>>: pd.read_csv raises (no such file, not a CSV, an empty file)
CsvFiles == {<<>>} \cup {<<fr>> : fr \in CsvFrames}

\* measurements.csv at start-up.  AnalyzerApp.__init__ ends with refresh_table,
\* so the application starts only on a table the tree can show.
StartFiles == {file \in CsvFiles : refresh_ok(DataModel_init(file).rows)}

CsvPaths == {"", "data.csv"}

InitFiles == \E file \in StartFiles : InitFrame(DataModel_init(file))

NextFiles ==
    \/ \E idx \in 0..(MaxFileRows - 1) : on_tree_select(idx)
    \/ \E yes \in BOOLEAN : delete_selected(yes)
    \/ Len(df) < MaxFileRows /\ undo_delete
    \/ /\ selected_index = <<>> => Len(df) < MaxFileRows
       /\ save_entry("B", "X", "5", "", "")
    \/ \E path \in CsvPaths, file \in CsvFiles :
         /\ file # <<>> => Len(file[1].rows) <= MaxFileRows
         /\ load_csv(path, file)
    \/ \E path \in CsvPaths, file \in CsvFiles :
         /\ file # <<>> => Len(df) + Len(file[1].rows) <= MaxFileRows
         /\ import_csv_append(path, file)

SpecFiles == InitFiles /\ [][NextFiles]_vars

\* SpecIndex: the session of SpecFiles, in which DataModel.update and
\* DataModel.delete are also called with an index that is not a row of the
\* table (the handlers pass the index of a row of the tree).
OutOfRange(d) == {-1, Len(d), Len(d) + 1}

NextIndex ==
    \/ NextFiles
    \/ \E index \in OutOfRange(df) :
         DataModel_update(index, "A", "X", float(5), nan, nan, "", "")
    \/ \E index \in OutOfRange(df) : DataModel_delete(index)

SpecIndex == InitFiles /\ [][NextIndex]_vars

\* SpecExport: a session that adds, overwrites and deletes records, with and
\* without a control, computes the PGI table of a non-empty table (there
\* generate_pgi_plot is generate_pgi_plot_run) and exports it.
ExportControls == {"", "10"}

InitExport == InitFrame(DataModel_init(<<>>))

NextExport ==
    \/ \E control \in ExportControls :
         /\ selected_index = <<>> => Len(df) < MaxExportRows
         /\ save_entry("A", "X", "5", control, "")
    \/ \E idx \in 0..(MaxExportRows - 1) : on_tree_select(idx)
    \/ \E yes \in BOOLEAN : delete_selected(yes)
    \/ \E group_mode \in {"ByFungus"}, plot_type \in {"grouped_bar"} :
         /\ df # <<>>
         /\ generate_pgi_plot_run(group_mode, plot_type)
    \/ \E path \in CsvPaths, writable \in BOOLEAN : export_pgi_csv(path, writable)

SpecExport == InitExport /\ [][NextExport]_vars

\* SpecEdit: a session on a table read from measurements.csv at start-up,
\* some of its records with a note: records are selected, opened for editing
\* and saved, and new ones are added.
MaxEditRows == 2

EditFrames ==
    {[columns |-> DATA_COLUMNS, rows |-> <<FileRow("A", float(5))>>],
     [columns |-> DATA_COLUMNS,
      rows |-> <<FileRow("A", float(5)),
                 Row("B", "X", float(10), nan, nan, "", "")>>]}

EditIsolates == {"A", "B"}
EditZones    == {"5", "10"}
EditControls == {"", "10"}

InitEdit == \E fr \in EditFrames : InitFrame(DataModel_init(<<fr>>))

NextEdit ==
    \/ \E idx \in 0..(MaxEditRows - 1) : on_tree_select(idx)
    \/ edit_selected
    \/ clear_fields
    \/ \E path \in ImagePaths : upload_image(path)
    \/ \E iso \in EditIsolates, zone \in EditZones, control \in EditControls :
         /\ selected_index = <<>> => Len(df) < MaxEditRows
         /\ save_entry(iso, "X", zone, control, "")

SpecEdit == InitEdit /\ [][NextEdit]_vars

\* SpecStats: one run of generate_plot or of generate_pgi_plot, with every
\* setting of the tab, or of save_csv, on every table of StatTables.
\* (Measurement_mm, Control_mm) pairs: PGI 60 and the suspicious -20 and 120,
\* a missing control and a zero control
StatPairs == {<<float(40), float(100)>>, <<float(120), float(100)>>,
              <<float(-20), float(100)>>, <<float(60), nan>>,
              <<float(60), float(0)>>}

StatRows == {Row(i, f, p[1], nan, p[2], "", "") :
                i \in {"A", "B"}, f \in {"X", "Y"}, p \in StatPairs}

\* the records of the grouping example: PGI 40, 60 for isolate A and 20 for
\* isolate B, all against fungus X
ExampleDf == <<Row("A", "X", float(60), nan, float(100), "", ""),
               Row("A", "X", float(40), nan, float(100), "", ""),
               Row("B", "X", float(80), nan, float(100), "", "")>>

\* every one-row table with whole Measurement_mm and Control_mm up to MaxMm
OneRowTables ==
    {<<Row("A", "X", float(m), nan, c, "", "")>> :
        m \in (-MaxMm)..MaxMm, c \in {nan} \cup {float(k) : k \in (-MaxMm)..MaxMm}}

StatTables == Tables(StatRows, MaxStatRows) \cup {ExampleDf} \cup OneRowTables

Metrics  == {"PGI_pct", "Measurement_mm"}
Modes    == {"ByFungus", "ByIsolate"}
Targets  == {"", "A", "B", "X", "Y"}

InitStats == \E d \in StatTables : InitApp(d)

NextStats ==
    \/ \E metric \in Metrics, plot_type \in PlotTypes \cup {"pie"}, mode \in Modes,
          target \in Targets, yes \in BOOLEAN :
         /\ hist.op = "init"
         /\ generate_plot(metric, plot_type, mode, target, yes)
    \/ \E group_mode \in Modes, plot_type \in PgiPlotTypes \cup {"pie"} :
         /\ hist.op = "init"
         /\ generate_pgi_plot(group_mode, plot_type)
    \/ \E path \in CsvPaths, writable \in BOOLEAN :
         /\ hist.op = "init"
         /\ save_csv(path, writable)

SpecStats == InitStats /\ [][NextStats]_vars

\* SpecPlots: generate_plot run again and again, with either metric and either
\* answer to the fallback question, on tables whose records have no control,
\* a control, or both.
MaxPlotRows == 2

PlotRows == {Row("A", "X", float(5), nan, nan, "", ""),
             Row("B", "X", float(3), nan, nan, "", ""),
             Row("A", "X", float(4), nan, float(10), "", ""),
             Row("A", "Y", float(6), nan, float(0), "", "")}

PlotTargets == {"", "A", "X", "Y"}

InitPlots == \E d \in Tables(PlotRows, MaxPlotRows) : InitApp(d)

NextPlots ==
    \E metric \in Metrics, plot_type \in {"bar", "pie"}, mode \in Modes,
       target \in PlotTargets, yes \in BOOLEAN :
         generate_plot(metric, plot_type, mode, target, yes)

SpecPlots == InitPlots /\ [][NextPlots]_vars

(***************************************************************************)
(* Reference definitions for the properties: the quantities the            *)
(* specification names, written over sets of row indexes.                  *)
(***************************************************************************)
\* Control_mm present and > 0
ControlOk(r) == r.Control_mm.den > 0 /\ r.Control_mm.num > 0

\* p is the number (c - m) / c * 100 for the row's m and c
IsPgiOf(p, r) ==
    LET m == r.Measurement_mm
        c == r.Control_mm
    IN  /\ p.den > 0
        /\ p.num * (c.num * m.den) = p.den * 100 * (c.num * m.den - m.num * c.den)

\* 0 <= p <= 100
InRange(p) == p.den > 0 /\ 0 <= p.num /\ p.num <= 100 * p.den

\* the rows of the last PGI table
PgiRows == IF _last_pgi_df = <<>> THEN <<>> ELSE _last_pgi_df[1]

\* a row of the last PGI table with the given whole Measurement_mm and Control_mm
HasRow(m, c) ==
    \E i \in 1..Len(PgiRows) :
        PgiRows[i].Measurement_mm = float(m) /\ PgiRows[i].Control_mm = float(c)

PgiAt(m, c) ==
    LET i == CHOOSE i \in 1..Len(PgiRows) :
                 PgiRows[i].Measurement_mm = float(m) /\ PgiRows[i].Control_mm = float(c)
    IN  PgiRows[i].PGI_pct

\* the PGI of a row, nan when it has none
RefPgi(r) ==
    LET m == r.Measurement_mm
        c == r.Control_mm
    IN  IF ControlOk(r) /\ m.den > 0
        THEN Frac((c.num * m.den - m.num * c.den) * 100, c.num * m.den)
        ELSE nan

\* the value of a row under a metric
RefMetric(r, metric) == IF metric = "PGI_pct" THEN RefPgi(r) ELSE r.Measurement_mm

\* sum, arithmetic mean and population variance (mean of squares minus square
\* of the mean) of f over the index set S; nan on the empty set
RECURSIVE RefSum(_, _)
RefSum(f, S) ==
    IF S = {} THEN float(0)
    ELSE LET i == CHOOSE i \in S : TRUE
         IN  FAdd(f[i], RefSum(f, S \ {i}))

RefMean(f, S) ==
    IF S = {} THEN nan ELSE FDiv(RefSum(f, S), float(Cardinality(S)))

RefVar(f, S) ==
    IF S = {} THEN nan
    ELSE FSub(FDiv(RefSum([i \in S |-> FMul(f[i], f[i])], S), float(Cardinality(S))),
              FMul(RefMean(f, S), RefMean(f, S)))

\* the metric values of the current table
MetricOf(metric) == [i \in 1..Len(df) |-> RefMetric(df[i], metric)]

\* generate_plot ran to its end / generate_pgi_plot ran to its end
PlotDone == hist.op = "generate_plot" /\ hist.drawn
PgiDone  == hist.op = "generate_pgi_plot" /\ hist.drawn

\* the filter column and the grouping column of the last generate_plot
PlotKey   == IF hist.mode = "ByFungus" THEN "Fungus" ELSE "Isolate"
PlotGroup == IF hist.mode = "ByFungus" THEN "Isolate" ELSE "Fungus"

\* the rows matching the target of the last generate_plot
PlotSubset == {i \in 1..Len(df) : df[i][PlotKey] = hist.target}

\* the rows of group lab, among the rows matching the target, that have a
\* value under the metric
PlotGroupRows(lab, metric) ==
    {i \in PlotSubset : df[i][PlotGroup] = lab /\ ~isnan(RefMetric(df[i], metric))}

\* the outer column and the series column of the last generate_pgi_plot
PgiOuter  == IF hist.group_mode = "ByFungus" THEN "Fungus" ELSE "Isolate"
PgiSeries == IF hist.group_mode = "ByFungus" THEN "Isolate" ELSE "Fungus"

\* the rows of a (series, outer-key) pair that have a PGI
PgiCellRows(ser, xg) ==
    {i \in 1..Len(df) : /\ df[i][PgiSeries] = ser /\ df[i][PgiOuter] = xg
                        /\ ~isnan(RefPgi(df[i]))}

(***************************************************************************)
(* C2: for every record whose Control_mm is present and > 0 the PGI is     *)
(* exactly (Control_mm - Measurement_mm) / Control_mm * 100, unclamped:    *)
(* (5, 10) gives 50, (10, 10) gives 0, (15, 10) gives -50, and (5, 0) is   *)
(* undefined.                                                              *)
(***************************************************************************)
C2_PgiFormula ==
    /\ \A i \in 1..Len(PgiRows) :
          ControlOk(PgiRows[i]) => IsPgiOf(PgiRows[i].PGI_pct, PgiRows[i])
    /\ HasRow(5, 10) => PgiAt(5, 10) = [num |-> 50, den |-> 1]
    /\ HasRow(10, 10) => PgiAt(10, 10) = [num |-> 0, den |-> 1]
    /\ HasRow(15, 10) => PgiAt(15, 10) = [num |-> -50, den |-> 1]
    /\ HasRow(5, 0) => PgiAt(5, 0).den = 0

\* the PGI table holds a record with treated 15 mm against control 10 mm, PGI -50
C2_Witness ==
    /\ HasRow(15, 10)
    /\ PgiAt(15, 10).num = -50

(***************************************************************************)
(* C3 as stated: whenever Measurement_mm <= Control_mm and Control_mm > 0, *)
(* the PGI lies in [0, 100].                                               *)
(***************************************************************************)
C3_Original ==
    \A i \in 1..Len(PgiRows) :
        LET r == PgiRows[i]
        IN  (ControlOk(r) /\ FLe(r.Measurement_mm, r.Control_mm)) => InRange(r.PGI_pct)

(***************************************************************************)
(* C3 amended: whenever 0 <= Measurement_mm <= Control_mm and              *)
(* Control_mm > 0, the PGI lies in [0, 100].                               *)
(***************************************************************************)
C3_PgiInRange ==
    \A i \in 1..Len(PgiRows) :
        LET r == PgiRows[i]
        IN  (/\ ControlOk(r)
             /\ FLe(float(0), r.Measurement_mm)
             /\ FLe(r.Measurement_mm, r.Control_mm)) => InRange(r.PGI_pct)

\* treated 5 mm against control 15 mm: PGI 200/3, strictly inside the range
C3_Witness ==
    /\ HasRow(5, 15)
    /\ PgiAt(5, 15) = [num |-> 200, den |-> 3]

(***************************************************************************)
(* C4: a record whose Control_mm is absent, nan or <= 0 has an undefined   *)
(* PGI (never 0) and gives no value to a PGI mean or standard deviation:   *)
(* the PGI_pct lines of generate_plot and the cells of generate_pgi_plot   *)
(* are the mean and deviation over the rows with a valid control only.     *)
(***************************************************************************)
C4_InvalidControlExcluded ==
    /\ \A i \in 1..Len(PgiRows) :
          ~ControlOk(PgiRows[i]) => PgiRows[i].PGI_pct.den = 0
    /\ (PlotDone /\ hist.used = "PGI_pct") =>
          \A k \in 1..Len(txt_details.lines) :
              LET S == {i \in PlotSubset :
                           /\ df[i][PlotGroup] = txt_details.lines[k].lab
                           /\ ControlOk(df[i])}
              IN  /\ txt_details.lines[k].m = RefMean(MetricOf("PGI_pct"), S)
                  /\ txt_details.lines[k].s.sq = RefVar(MetricOf("PGI_pct"), S)
    /\ (PgiDone /\ pgi_ax.kind = "grouped_bar") =>
          \A a \in 1..Len(pgi_ax.series), b \in 1..Len(pgi_ax.labels) :
              LET S == {i \in 1..Len(df) :
                           /\ df[i][PgiSeries] = pgi_ax.series[a]
                           /\ df[i][PgiOuter] = pgi_ax.labels[b]
                           /\ ControlOk(df[i])}
              IN  /\ pgi_ax.bars[a][b] = RefMean(MetricOf("PGI_pct"), S)
                  /\ pgi_ax.yerr[a][b].sq = RefVar(MetricOf("PGI_pct"), S)

\* a cell of the PGI matrix whose pair holds a record without a valid control
\* beside a record with PGI 60: the cell is 60, the other record is undefined
C4_Witness ==
    /\ PgiDone /\ pgi_ax.kind = "grouped_bar"
    /\ \E a \in 1..Len(pgi_ax.series), b \in 1..Len(pgi_ax.labels) :
          /\ pgi_ax.bars[a][b] = float(60)
          /\ \E i \in 1..Len(df) :
                /\ df[i][PgiSeries] = pgi_ax.series[a]
                /\ df[i][PgiOuter] = pgi_ax.labels[b]
                /\ ~ControlOk(df[i])
                /\ PgiRows[i].PGI_pct.den = 0

(***************************************************************************)
(* C5: for every group of the filtered subset, generate_plot reports the   *)
(* arithmetic mean and the population standard deviation (denominator N)   *)
(* of exactly the defined metric values of the group's records, both       *)
(* undefined when the group has none.  Records (A,X,40), (A,X,60),         *)
(* (B,X,20) grouped by isolate give A: 50, 10 and B: 20, 0.                *)
(***************************************************************************)
C5_GroupMeanStd ==
    PlotDone =>
       /\ \A k \in 1..Len(txt_details.lines) :
             LET S == PlotGroupRows(txt_details.lines[k].lab, hist.used)
             IN  /\ txt_details.lines[k].m = RefMean(MetricOf(hist.used), S)
                 /\ txt_details.lines[k].s.sq = RefVar(MetricOf(hist.used), S)
       /\ ax.kind = "bar" =>
             /\ ax.heights = [k \in 1..Len(txt_details.lines) |-> txt_details.lines[k].m]
             /\ ax.errs = [k \in 1..Len(txt_details.lines) |-> txt_details.lines[k].s]
       /\ (df = ExampleDf /\ hist.mode = "ByFungus" /\ hist.used = "PGI_pct") =>
             txt_details.lines =
                 << [lab |-> "A", m |-> [num |-> 50, den |-> 1],
                     s |-> [sq |-> [num |-> 100, den |-> 1]]],
                    [lab |-> "B", m |-> [num |-> 20, den |-> 1],
                     s |-> [sq |-> [num |-> 0, den |-> 1]]] >>

\* the example table plotted by isolate for fungus X with the PGI metric
C5_Witness ==
    /\ PlotDone /\ df = ExampleDf /\ hist.mode = "ByFungus" /\ hist.used = "PGI_pct"
    /\ Len(txt_details.lines) = 2
    /\ txt_details.lines[1].m.num = 50 /\ txt_details.lines[1].s.sq.num = 100

(***************************************************************************)
(* C6: the best performer reported by generate_plot is a group with the    *)
(* highest defined mean when the metric used is PGI_pct and a group with   *)
(* the lowest defined mean when it is Measurement_mm; a group whose mean   *)
(* is undefined is never reported.                                         *)
(***************************************************************************)
C6_BestPerformer ==
    PlotDone =>
       LET lines   == txt_details.lines
           M(k)    == RefMean(MetricOf(hist.used), PlotGroupRows(lines[k].lab, hist.used))
           defined == {k \in 1..Len(lines) : ~isnan(M(k))}
       IN  /\ txt_details.head =
                 (IF hist.used = "PGI_pct" THEN "best performer" ELSE "most effective")
           /\ \E b \in defined :
                 /\ txt_details.best_label = lines[b].lab
                 /\ txt_details.best_val = M(b)
                 /\ hist.used = "PGI_pct" => \A k \in defined : FLe(M(k), M(b))
                 /\ hist.used = "Measurement_mm" => \A k \in defined : FLe(M(b), M(k))

\* raw measurements, two groups with different means: the lower one is reported
C6_Witness ==
    /\ PlotDone /\ hist.used = "Measurement_mm"
    /\ Len(txt_details.lines) = 2
    /\ FLt(txt_details.lines[2].m, txt_details.lines[1].m)
    /\ txt_details.best_label = txt_details.lines[2].lab

(***************************************************************************)
(* C7: the groups of generate_plot are exactly the distinct values of the  *)
(* grouping key among the records matching the target, in ascending        *)
(* lexicographic order; the same records in any other insertion order      *)
(* give the same groups with the same mean and standard deviation.         *)
(***************************************************************************)
\* the lines generate_plot computes on table d with the metric used
LinesOn(d, used, mode, target) ==
    LET t         == IF used = "PGI_pct" THEN compute_pgi_df(d) ELSE d
        key       == IF mode = "ByFungus" THEN "Fungus" ELSE "Isolate"
        group_col == IF mode = "ByFungus" THEN "Isolate" ELSE "Fungus"
        sub       == SelectSeq(t, LAMBDA r : r[key] = target)
        labels    == group_labels(sub, group_col)
    IN  [k \in 1..Len(labels) |->
            [lab |-> labels[k],
             m |-> group_means(sub, group_col, used, labels)[k],
             s |-> group_stds(sub, group_col, used, labels)[k]]]

Orders(n) == {p \in [1..n -> 1..n] : \A i, j \in 1..n : p[i] = p[j] => i = j}

C7_GroupsSortedAnyOrder ==
    PlotDone =>
       LET lines == txt_details.lines
       IN  /\ {lines[k].lab : k \in 1..Len(lines)} = {df[i][PlotGroup] : i \in PlotSubset}
           /\ \A k \in 1..(Len(lines) - 1) : ord(lines[k].lab) < ord(lines[k + 1].lab)
           /\ \A p \in Orders(Len(df)) :
                 LinesOn([i \in 1..Len(df) |-> df[p[i]]], hist.used, hist.mode,
                         hist.target) = lines

\* the table holds group B before group A; the groups are listed A, B
C7_Witness ==
    /\ PlotDone /\ Len(df) >= 2
    /\ 1 \in PlotSubset /\ 2 \in PlotSubset
    /\ ord(df[2][PlotGroup]) < ord(df[1][PlotGroup])
    /\ Len(txt_details.lines) = 2
    /\ txt_details.lines[1].lab = df[2][PlotGroup]
    /\ txt_details.lines[2].lab = df[1][PlotGroup]

(***************************************************************************)
(* C8: in the matrix of generate_pgi_plot the cell of a (series,           *)
(* outer-key) pair holds the mean and deviation of the defined PGI values  *)
(* of exactly the records of that pair, a pair without such a record has   *)
(* an undefined cell (never 0), and the "best" of each outer group in the  *)
(* summary is chosen among the defined cells only.                         *)
(***************************************************************************)
\* the mean of the PGI values of a pair
CellMean(ser, xg) == RefMean(MetricOf("PGI_pct"), PgiCellRows(ser, xg))

C8_PgiMatrix ==
    PgiDone =>
       LET series == {df[i][PgiSeries] : i \in {i \in 1..Len(df) : ~isnan(RefPgi(df[i]))}}
           outer  == {df[i][PgiOuter] : i \in 1..Len(df)}
           best   == pgi_notes.best
       IN  /\ pgi_ax.kind = "grouped_bar" =>
                 /\ {pgi_ax.series[a] : a \in 1..Len(pgi_ax.series)} = series
                 /\ {pgi_ax.labels[b] : b \in 1..Len(pgi_ax.labels)} = outer
                 /\ \A a \in 1..Len(pgi_ax.series), b \in 1..Len(pgi_ax.labels) :
                       LET S == PgiCellRows(pgi_ax.series[a], pgi_ax.labels[b])
                       IN  /\ pgi_ax.bars[a][b] = RefMean(MetricOf("PGI_pct"), S)
                           /\ pgi_ax.yerr[a][b].sq = RefVar(MetricOf("PGI_pct"), S)
                           /\ S = {} => /\ pgi_ax.bars[a][b].den = 0
                                        /\ pgi_ax.yerr[a][b].sq.den = 0
           /\ {best[j].group : j \in 1..Len(best)} = outer
           /\ \A j \in 1..Len(best) :
                 LET xg      == best[j].group
                     defined == {ser \in series : PgiCellRows(ser, xg) # {}}
                 IN  IF defined = {} THEN best[j].best = ""
                     ELSE /\ best[j].best \in defined
                          /\ best[j].best_val = CellMean(best[j].best, xg)
                          /\ \A ser \in defined : FLe(CellMean(ser, xg), best[j].best_val)

\* a 2 x 2 matrix with one defined and one undefined cell in its first row
C8_Witness ==
    /\ PgiDone /\ pgi_ax.kind = "grouped_bar"
    /\ Len(pgi_ax.series) = 2 /\ Len(pgi_ax.labels) = 2
    /\ pgi_ax.bars[1][1].den = 1
    /\ pgi_ax.bars[1][2].den = 0
    /\ pgi_notes.best[1].best = pgi_ax.series[1]

(***************************************************************************)
(* C9: after every invocation of generate_pgi_plot on a non-empty table,   *)
(* for any group mode and plot type, the notes list the index of every     *)
(* record whose PGI is undefined (Excluded) and every record whose PGI is  *)
(* defined but < 0 or > 100 (Suspicious) with its value and isolate/fungus *)
(* pair, and no record with a PGI in [0, 100].                             *)
(***************************************************************************)
C9_NotesListExcludedAndSuspicious ==
    (hist.op = "generate_pgi_plot" /\ df # <<>>) =>
       /\ pgi_notes.head = "PGI summary"
       /\ {pgi_notes.excluded[k] : k \in 1..Len(pgi_notes.excluded)}
             = {i - 1 : i \in {i \in 1..Len(df) : isnan(RefPgi(df[i]))}}
       /\ {pgi_notes.suspicious[k] : k \in 1..Len(pgi_notes.suspicious)}
             = {[index |-> i - 1, PGI |-> RefPgi(df[i]),
                 Isolate |-> df[i].Isolate, Fungus |-> df[i].Fungus] :
                  i \in {i \in 1..Len(df) : /\ ~isnan(RefPgi(df[i]))
                                            /\ ~InRange(RefPgi(df[i]))}}

(***************************************************************************)
(* C10: a record whose PGI is defined but outside [0, 100] is neither      *)
(* corrected nor dropped: its value stands in the PGI table, it counts in  *)
(* the means and deviations of generate_plot and generate_pgi_plot like    *)
(* any other defined value, and the table is not changed.                  *)
(***************************************************************************)
C10_SuspiciousKept ==
    LET Usual(S)   == {i \in S : InRange(RefPgi(df[i]))}
        Unusual(S) == {i \in S : ~isnan(RefPgi(df[i])) /\ ~InRange(RefPgi(df[i]))}
    IN  /\ hist.op \in {"generate_plot", "generate_pgi_plot"} => df = hist.before
        /\ \A i \in 1..Len(PgiRows) :
              i \in Unusual(1..Len(df)) => PgiRows[i].PGI_pct = RefPgi(df[i])
        /\ (PlotDone /\ hist.used = "PGI_pct") =>
              \A k \in 1..Len(txt_details.lines) :
                  LET G == {i \in PlotSubset : df[i][PlotGroup] = txt_details.lines[k].lab}
                      S == Usual(G) \cup Unusual(G)
                  IN  /\ txt_details.lines[k].m = RefMean(MetricOf("PGI_pct"), S)
                      /\ txt_details.lines[k].s.sq = RefVar(MetricOf("PGI_pct"), S)
        /\ (PgiDone /\ pgi_ax.kind = "grouped_bar") =>
              \A a \in 1..Len(pgi_ax.series), b \in 1..Len(pgi_ax.labels) :
                  LET G == {i \in 1..Len(df) : /\ df[i][PgiSeries] = pgi_ax.series[a]
                                               /\ df[i][PgiOuter] = pgi_ax.labels[b]}
                      S == Usual(G) \cup Unusual(G)
                  IN  /\ pgi_ax.bars[a][b] = RefMean(MetricOf("PGI_pct"), S)
                      /\ pgi_ax.yerr[a][b].sq = RefVar(MetricOf("PGI_pct"), S)

\* a pair with PGI 60 and the suspicious -20: the cell is their mean 20, and
\* the record is flagged in the notes
C10_Witness ==
    /\ PgiDone /\ pgi_ax.kind = "grouped_bar"
    /\ Len(df) = 2
    /\ RefPgi(df[1]) = float(60) /\ RefPgi(df[2]) = float(-20)
    /\ pgi_ax.bars = << <<float(20)>> >>
    /\ Len(pgi_notes.suspicious) = 1 /\ pgi_notes.suspicious[1].index = 1

(***************************************************************************)
(* C1: for every table and every valid index i, a confirmed                *)
(* delete_selected of the record at index i immediately followed by        *)
(* undo_delete gives back the table as it was before the delete: the same  *)
(* length, the same records in the same order, the deleted record at       *)
(* index i again.                                                          *)
(***************************************************************************)
C1_DeleteUndoRestores ==
    (hist.op = "undo_delete" /\ hist.after = "delete_selected") =>
       /\ Len(df) = Len(hist.before)
       /\ \A i \in 1..Len(df) : df[i] = hist.before[i]
       /\ _last_deleted = <<>>

\* the middle record of three different records was deleted and restored
C1_Witness ==
    /\ hist.op = "undo_delete" /\ hist.after = "delete_selected"
    /\ hist.idx = 1
    /\ Len(df) = 3
    /\ df[1] # df[2] /\ df[2] # df[3]

\* a step taken by handler op (the handlers that change anything set hist)
StepOf(op) == vars' # vars /\ hist'.op = op

(***************************************************************************)
(* C11: whenever save_entry rejects its input (isolate, fungus or          *)
(* measurement empty, or measurement, control or concentration not         *)
(* numeric), the table is left exactly as it was, in add mode and in edit  *)
(* mode alike: the step of a rejected save_entry changes neither the rows  *)
(* nor the columns of the table.                                           *)
(***************************************************************************)
C11_RejectedSaveKeepsTable ==
    [][(StepOf("save_entry") /\ ~hist'.ok) =>
          /\ df' = df
          /\ df_columns' = df_columns]_vars

\* a save_entry in edit mode on a table of two records was rejected for its
\* concentration
C11_Witness ==
    /\ hist.op = "save_entry" /\ ~hist.ok
    /\ hist.msg = "Concentration must be numeric"
    /\ selected_index # <<>>
    /\ Len(df) = 2

(***************************************************************************)
(* C13: undo is single-level.  The undo slot holds at most one record.  A  *)
(* confirmed delete puts the record it removes into the slot, replacing    *)
(* what was there; no other operation fills the slot.  An undo_delete on a *)
(* filled slot inserts exactly the record of the slot and empties the      *)
(* slot; an undo_delete on an empty slot (e.g. a second undo without a new *)
(* delete) leaves the table unchanged.  So only the most recently deleted  *)
(* record can ever be restored, and only once.                             *)
(***************************************************************************)
C13_SingleLevelUndo ==
    [][/\ _last_deleted = <<>> \/ Len(_last_deleted) = 2
       /\ StepOf("delete_selected") =>
             /\ _last_deleted' = <<hist'.idx, df[hist'.idx + 1]>>
             /\ Len(df') = Len(df) - 1
       /\ StepOf("undo_delete") =>
             IF _last_deleted = <<>>
             THEN df' = df /\ _last_deleted' = <<>>
             ELSE /\ _last_deleted' = <<>>
                  /\ \E k \in 0..Len(df) :
                        df' = SubSeq(df, 1, k) \o <<_last_deleted[2]>>
                                \o SubSeq(df, k + 1, Len(df))
       /\ hist'.op \notin {"delete_selected", "undo_delete"} =>
             _last_deleted' = _last_deleted]_vars

\* an undo restored record B; the undo after it found the slot empty and left
\* the table as it was
C13_Witness ==
    /\ hist.op = "undo_delete" /\ hist.msg = "No deletion to undo"
    /\ hist.after = "undo_delete"
    /\ _last_deleted = <<>>
    /\ Len(df) = 1
    /\ df[1].Isolate = "B"

(***************************************************************************)
(* C19: a save_entry that passes validation overwrites an existing record  *)
(* only if edit_selected was invoked on that record since the last         *)
(* successful save_entry or clear_fields; otherwise (including after       *)
(* merely selecting a row) it appends one new record and leaves every      *)
(* existing record unchanged.                                              *)
(***************************************************************************)
C19_OverwriteOnlyAfterEdit ==
    [][(StepOf("save_entry") /\ hist'.ok) =>
          /\ \A i \in 1..Len(df) :
                (i <= Len(df') /\ df'[i] # df[i]) =>
                    (edit_req # <<>> /\ edit_req[1] = i - 1)
          /\ edit_req = <<>> => df' = Append(df, hist'.row)]_vars

(***************************************************************************)
(* C20: a save_entry that passes validation always stores the entered      *)
(* values, either as a new last record or in the record the operator       *)
(* selected: it is never dropped and never written into a record other     *)
(* than the one that was selected (the selected index may have become      *)
(* stale after a delete, an undo or a load).                               *)
(***************************************************************************)
C20_SaveStoresEntry ==
    [][(StepOf("save_entry") /\ hist'.ok) =>
          \/ df' = Append(df, hist'.row)
          \/ /\ sel_req # <<>>
             /\ sel_req[1] < Len(df)
             /\ df[sel_req[1] + 1] = sel_req[2]
             /\ df' = [df EXCEPT ![sel_req[1] + 1] = hist'.row]]_vars

(***************************************************************************)
(* C12: whenever load_csv, import_csv_append, save_csv or an export        *)
(* reports an error to the operator, the in-memory table is what it was    *)
(* before the operation started, also when the file was read and the       *)
(* failure came later, e.g. while the table view was refreshed.            *)
(***************************************************************************)
C12_ErrorKeepsTable ==
    [][(/\ vars' # vars
        /\ hist'.op \in {"load_csv", "import_csv_append", "save_csv", "export_pgi_csv"}
        /\ hist'.msg \in {"Error", "Import error"}) =>
          /\ df' = df
          /\ df_columns' = df_columns]_vars

(***************************************************************************)
(* C14: whenever undo_delete restores a record, the record ends up at the  *)
(* index it had when it was deleted, whatever was done between the delete  *)
(* and the undo (add, edit, import-append, load-replace).                  *)
(***************************************************************************)
C14_UndoAtOriginalIndex ==
    (hist.op = "undo_delete" /\ hist.msg = "Last deletion undone") =>
       /\ hist.idx < Len(df)
       /\ df[hist.idx + 1] = hist.row

\* the rows DataModel.load is to give for the frame fr: per row the cell of
\* the file, or NaN / "" where the file has no such column
RefLoadedRows(fr) ==
    [i \in 1..Len(fr.rows) |->
        [c \in {"Isolate", "Fungus", "Measurement_mm", "Concentration_CFU_per_ml",
                "Control_mm", "ImagePath", "Notes"} |->
            IF c \in Range(fr.columns) THEN fr.rows[i][c]
            ELSE IF c \in {"Measurement_mm", "Concentration_CFU_per_ml", "Control_mm"}
                 THEN nan ELSE ""]]

(***************************************************************************)
(* C15: the columns of the table are exactly Isolate, Fungus,              *)
(* Measurement_mm, Concentration_CFU_per_ml, Control_mm, ImagePath, Notes  *)
(* in that order, in every state and so after every load; the rows loaded  *)
(* at start-up, by load_csv and by import_csv_append hold the file's cell  *)
(* for every column the file has and NaN (numeric columns) or "" (text     *)
(* columns) for a column the file lacks; extra or reordered file columns   *)
(* change neither the columns of the table nor their order.                *)
(***************************************************************************)
C15_ColumnsNormalised ==
    /\ df_columns = <<"Isolate", "Fungus", "Measurement_mm",
                      "Concentration_CFU_per_ml", "Control_mm", "ImagePath", "Notes">>
    /\ \A i \in 1..Len(df) : DOMAIN df[i] = Range(df_columns)
    /\ hist.op = "init" =>
          \E file \in StartFiles :
              df = IF file = <<>> THEN <<>> ELSE RefLoadedRows(file[1])
    /\ (hist.op = "load_csv" /\ hist.file # <<>>) =>
          df = RefLoadedRows(hist.file[1])
    /\ (hist.op = "import_csv_append" /\ hist.file # <<>>) =>
          LET n == Len(hist.file[1].rows)
          IN  /\ n <= Len(df)
              /\ SubSeq(df, Len(df) - n + 1, Len(df)) = RefLoadedRows(hist.file[1])

\* a file with reordered columns, the extra column Comment and no
\* Concentration_CFU_per_ml, ImagePath and Notes was appended to a record
C15_Witness ==
    /\ hist.op = "import_csv_append" /\ hist.file # <<>>
    /\ "Comment" \in Range(hist.file[1].columns)
    /\ Len(df) = 2
    /\ df[2].Isolate = "B" /\ df[2].Notes = ""
    /\ isnan(df[2].Concentration_CFU_per_ml)
    /\ df[2].Control_mm = float(10)

\* the cell to_csv is to write for the value v of a numeric column: empty for
\* NaN, else the numeral of v
RefCsvNumber(v) == IF v.den = 0 THEN [empty |-> TRUE] ELSE [numeral |-> v]

\* export_pgi_csv has just written a file
PgiExported == hist.op = "export_pgi_csv" /\ hist.msg = "PGI CSV saved"

(***************************************************************************)
(* C16: whenever export_pgi_csv writes a file, the exported rows are the   *)
(* records of the in-memory table at that moment, each with the PGI_pct    *)
(* computed from its current Measurement_mm and Control_mm, also when the  *)
(* table changed after the last generate_pgi_plot.                         *)
(***************************************************************************)
C16_ExportIsCurrentTable ==
    PgiExported =>
       LET lines == written[1].lines
       IN  /\ Len(lines) = Len(df)
           /\ \A i \in 1..Len(df) :
                 /\ lines[i].Isolate = [text |-> df[i].Isolate]
                 /\ lines[i].Fungus = [text |-> df[i].Fungus]
                 /\ lines[i].Measurement_mm = RefCsvNumber(df[i].Measurement_mm)
                 /\ lines[i].Control_mm = RefCsvNumber(df[i].Control_mm)
                 /\ lines[i].PGI_pct = RefCsvNumber(RefPgi(df[i]))

(***************************************************************************)
(* C17: in the PGI table produced by compute_pgi_df and in the file        *)
(* export_pgi_csv writes from it, every record whose Control_mm is         *)
(* undefined has an undefined (empty) PGI_pct and never the value 0; the   *)
(* table of the model is not modified by the computation and gets no       *)
(* PGI_pct column.                                                         *)
(***************************************************************************)
C17_UndefinedPgiCell ==
    /\ _last_pgi_df # <<>> =>
          \A i \in 1..Len(_last_pgi_df[1]) :
              LET r == _last_pgi_df[1][i]
              IN  r.Control_mm.den = 0 =>
                     (r.PGI_pct.den = 0 /\ r.PGI_pct # float(0))
    /\ PgiExported =>
          \A i \in 1..Len(written[1].lines) :
              LET line == written[1].lines[i]
              IN  line.Control_mm = [empty |-> TRUE] =>
                     (line.PGI_pct = [empty |-> TRUE]
                        /\ line.PGI_pct # [numeral |-> float(0)])
    /\ hist.op = "generate_pgi_plot" => df = hist.before
    /\ \A i \in 1..Len(df) : "PGI_pct" \notin DOMAIN df[i]
    /\ "PGI_pct" \notin Range(df_columns)

\* the exported file has a record without control, its PGI_pct cell empty, and
\* a record with control 10 and measurement 5, its PGI_pct cell 50
C17_Witness ==
    /\ PgiExported
    /\ Len(written[1].lines) = 2
    /\ written[1].lines[1].Control_mm = [empty |-> TRUE]
    /\ written[1].lines[1].PGI_pct = [empty |-> TRUE]
    /\ written[1].lines[2].PGI_pct = [numeral |-> float(50)]

(***************************************************************************)
(* C18: in generate_plot with metric PGI_pct the operator is asked about   *)
(* the fallback exactly when no record matching the target has a defined   *)
(* PGI.  Accepted, the means and the best performer are those of           *)
(* Measurement_mm, the lowest mean being the best; refused, the details    *)
(* shown, the last figure and the last summary stay as they were.  With a  *)
(* defined PGI in the subset the metric stays PGI_pct.                     *)
(***************************************************************************)
C18_PgiFallback ==
    hist.op = "generate_plot" =>
       LET none == \A i \in PlotSubset : isnan(RefPgi(df[i]))
       IN  /\ hist.asked <=> (hist.metric = "PGI_pct" /\ none)
           /\ ~hist.asked => ~hist.refused /\ hist.used = hist.metric
           /\ hist.asked /\ ~hist.refused => hist.used = "Measurement_mm"
           /\ hist.asked /\ hist.drawn =>
                 LET lines == txt_details.lines
                     M(k)  == RefMean(MetricOf("Measurement_mm"),
                                      PlotGroupRows(lines[k].lab, "Measurement_mm"))
                 IN  /\ txt_details.head = "most effective"
                     /\ \A k \in 1..Len(lines) : lines[k].m = M(k)
                     /\ \E b \in 1..Len(lines) :
                           /\ txt_details.best_label = lines[b].lab
                           /\ txt_details.best_val = M(b)
                           /\ \A k \in 1..Len(lines) : FLe(M(b), M(k))
           /\ hist.refused =>
                 /\ ~hist.drawn
                 /\ <<txt_details, _last_pgi_fig, _last_pgi_summary>> = hist.shown

\* a refusal after an earlier plot: the earlier details, figure and summary
\* are still there
C18_Witness ==
    /\ hist.op = "generate_plot" /\ hist.asked /\ hist.refused
    /\ txt_details # NoText
    /\ _last_pgi_fig # <<>>
    /\ _last_pgi_summary = txt_details

(***************************************************************************)
(* C21: a save_entry that passes validation after edit_selected changes    *)
(* only the Isolate, Fungus, Measurement_mm, Control_mm,                   *)
(* Concentration_CFU_per_ml and ImagePath of the record opened for         *)
(* editing: its Notes, the length of the table and every other record      *)
(* stay as they were.                                                      *)
(***************************************************************************)
C21_EditFrame ==
    [][(StepOf("save_entry") /\ hist'.ok /\ edit_req # <<>>) =>
          /\ Len(df') = Len(df)
          /\ \A i \in 1..Len(df) :
                IF i = edit_req[1] + 1
                THEN df'[i].Notes = df[i].Notes
                ELSE df'[i] = df[i]]_vars

(***************************************************************************)
(* C22: after every sequence of add, update, delete, undo_delete,          *)
(* import_csv_append and load the row labels of the table are exactly      *)
(* 0..n-1 in order, without gap or duplicate.  add and import_csv_append   *)
(* put the new records after the existing ones, which keep their places;   *)
(* delete moves every later record down by one; update and delete with an  *)
(* index outside 0..n-1 change nothing.                                    *)
(***************************************************************************)
IndexOk == df_index = [i \in 1..Len(df) |-> i - 1]

====
